---- MODULE Spec2Model ----
(***************************************************************************)
(* The native camera bridge of gemdetect-usb-camera: the React Native      *)
(* module USBCameraModule (src/unnamed/part_015), its four module fields,  *)
(* the host commands openCamera / startPreview / captureImage /            *)
(* closeCamera, and the camera2 callbacks it registers.                    *)
(*                                                                         *)
(* Threads.  React Native runs every @ReactMethod on one native-modules    *)
(* thread (thread 0 here), so host commands never overlap each other.      *)
(* Every openCamera call starts a fresh HandlerThread (startBackground-    *)
(* Thread) and hands its Handler to the platform; the callbacks of the     *)
(* camera, the capture session and the image reader run on the thread      *)
(* whose Handler was passed when they were registered.  The module takes   *)
(* no lock, so a host command and a callback interleave at every access    *)
(* to a module field; each action below is one such step.                  *)
(*                                                                         *)
(* Platform.  The camera2 objects are modelled by their documented         *)
(* life cycle only: a CameraDevice is opening, opened, lost (the hardware  *)
(* reported a disconnect or an error and close() was not yet called) or    *)
(* closed; closing a device closes its capture sessions; a closed device   *)
(* or image reader delivers no further callbacks; a message posted to a    *)
(* HandlerThread that has quit is dropped; an exception no catch clause    *)
(* covers ends the process (fault).                                        *)
(*                                                                         *)
(* Two further parts of the repository touch none of the session state     *)
(* and have a specification of their own: getAvailableCameras, the         *)
(* camera enumeration of the same module (SpecCameras), and                *)
(* mockUsbMicroscopeManager, the microscope manager the test suite of      *)
(* src/unnamed/part_003 runs against (SpecMock).  The host component       *)
(* NativeUSBCamera (src/unnamed/part_007) that drives the module from the  *)
(* JS thread is specified in SpecHost, against the native module reduced   *)
(* to the handles and events the component can observe.                    *)
(***************************************************************************)
EXTENDS Integers, Sequences, FiniteSets, TLC

\* Bounds of the model.
MaxOpens == 2
MaxPreviews == 2
MaxFrames == 2
MaxCmds == 3
MaxCameras == 3
MaxMockCalls == 4
MaxHostCalls == 3
MaxJsQueue == 2

\* Java null for the module fields (object ids start at 1).
NoObject == 0

Handles == 1 .. MaxOpens
BgThreads == 1 .. MaxOpens
Threads == 0 .. MaxOpens
Sessions == 1 .. MaxPreviews
CameraIds == {"cam-1", "cam-2"}
ErrorCodes == {4}
\* The resolutions a host asks for (the host component always asks for
\* 1920x1080) and the JPEG output sizes each camera lists in its stream
\* configuration map: the built-in camera lists both, the external one does
\* not list 1920x1080.
Sizes == {"1920x1080", "640x480"}
OutputSizes == [id \in CameraIds |-> IF id = "cam-1" THEN Sizes ELSE {"640x480"}]

VARIABLES
    \* fields of USBCameraModule
    cameraDevice, captureSession, imageReader, backgroundThread,
    \* platform objects
    camState, camId, camCloses,
    thrState, queue, cur,
    sessState, sessDev, sessThread, repeating, pendingCapture,
    rdrState, rdrThread, rdrImage, rdrSize,
    \* the event channel to the host and the outcome of the last host command
    events, hostResult, fault,
    \* the promise of each openCamera call (by its camera) and of each
    \* startPreview call (by its session)
    openPromise, previewPromise,
    \* counters of the bounded environment and the record of consecutive closes
    nFrames, nCmds, closeRun,
    \* getAvailableCameras: the cameras the platform enumerates and the promise
    hwCameras, listResult,
    \* the microscope manager of the test suite and the calls made on it
    mockUsbMicroscopeManager, mockCalls,
    \* the host component: its place in the React life cycle, its useState
    \* values, whether its event listeners are registered, the camera a
    \* switchCamera call waits to open, the events on their way to the JS
    \* thread, the native module as the component sees it, the native methods
    \* called so far, and the answer to the permission request of the
    \* initialization
    lifecycle, react, listeners, switching, jsQueue, native, nativeCalls, initResult

fields == <<cameraDevice, captureSession, imageReader, backgroundThread>>
cams == <<camState, camId, camCloses>>
sess == <<sessState, sessDev, sessThread, repeating, pendingCapture>>
rdrs == <<rdrState, rdrThread, rdrImage, rdrSize>>
counters == <<nFrames, nCmds>>
promises == <<openPromise, previewPromise>>
session == <<fields, cams, thrState, queue, cur, sess, rdrs, events, hostResult,
             fault, promises, counters, closeRun>>
listing == <<hwCameras, listResult>>
mock == <<mockUsbMicroscopeManager, mockCalls>>
hostc == <<lifecycle, react, listeners, switching, jsQueue, native, nativeCalls,
           initResult>>
aside == <<listing, mock, hostc>>
vars == <<session, listing, mock, hostc>>

Idle == [op |-> "idle", pc |-> 0, obj |-> 0, ctx |-> "-", arg |-> 0]
Step(op, pc, obj, ctx) == [op |-> op, pc |-> pc, obj |-> obj, ctx |-> ctx, arg |-> 0]
StepArg(op, pc, obj, arg) == [op |-> op, pc |-> pc, obj |-> obj, ctx |-> "-", arg |-> arg]
Pop(q, t) == [q EXCEPT ![t] = Tail(@)]
Msg(cb, obj, arg) == [cb |-> cb, obj |-> obj, arg |-> arg]
\* An event on the channel: the payload the code builds (status, cameraId,
\* errorCode; imageData is the frame the payload encodes) and dev, the
\* CameraDevice object the event stems from, which the payload does not carry.
Event(name, status, cameraId, errorCode, imageData, dev) ==
    [name |-> name, status |-> status, cameraId |-> cameraId,
     errorCode |-> errorCode, imageData |-> imageData, dev |-> dev]
Result(cmd, outcome, ctx) == [cmd |-> cmd, outcome |-> outcome, ctx |-> ctx]

InitSession ==
    /\ cameraDevice = NoObject
    /\ captureSession = NoObject
    /\ imageReader = NoObject
    /\ backgroundThread = NoObject
    /\ camState = [h \in Handles |-> "none"]
    /\ camId = [h \in Handles |-> "-"]
    /\ camCloses = [h \in Handles |-> 0]
    /\ thrState = [t \in BgThreads |-> "none"]
    /\ queue = [t \in Threads |-> <<>>]
    /\ cur = [t \in Threads |-> Idle]
    /\ sessState = [s \in Sessions |-> "none"]
    /\ sessDev = [s \in Sessions |-> NoObject]
    /\ sessThread = [s \in Sessions |-> 0]
    /\ repeating = [s \in Sessions |-> FALSE]
    /\ pendingCapture = [s \in Sessions |-> 0]
    /\ rdrState = [r \in Sessions |-> "none"]
    /\ rdrThread = [r \in Sessions |-> 0]
    /\ rdrImage = [r \in Sessions |-> "none"]
    /\ rdrSize = [r \in Sessions |-> "-"]
    /\ events = <<>>
    /\ hostResult = Result("-", "-", "-")
    /\ fault = "none"
    /\ openPromise = [h \in Handles |-> "none"]
    /\ previewPromise = [s \in Sessions |-> "none"]
    /\ nFrames = 0
    /\ nCmds = 0
    /\ closeRun = [calls |-> 0, start |-> 0]

\* No camera enumerated and no listing asked for.
NoListing == [outcome |-> "-", cameras |-> <<>>]
InitListing ==
    /\ hwCameras = <<>>
    /\ listResult = NoListing

\* The object literal of mockUsbMicroscopeManager, lines 540-543.
InitMock ==
    /\ mockUsbMicroscopeManager = [isConnected |-> FALSE, device |-> "null", stream |-> "null"]
    /\ mockCalls = <<>>

\* The useState values of the first render, lines 25-30.
FirstRender ==
    [hasPermission |-> FALSE, isCapturing |-> FALSE, cameras |-> <<>>,
     selectedCamera |-> "null", cameraStatus |-> "initializing",
     previewActive |-> FALSE]
NativeCams == 1 .. MaxHostCalls
\* The component is rendered and its effect has not run; the native module
\* is as constructed and the camera permission is not granted.
InitHost ==
    /\ lifecycle = "rendered"
    /\ react = FirstRender
    /\ listeners = FALSE
    /\ switching = "-"
    /\ jsQueue = <<>>
    /\ native = [cam |-> [h \in NativeCams |-> "none"], device |-> NoObject,
                 session |-> FALSE, configuring |-> NoObject, streaming |-> NoObject,
                 granted |-> FALSE, fault |-> "none"]
    /\ nativeCalls = <<>>
    /\ initResult = "-"

Init == InitSession /\ InitListing /\ InitMock /\ InitHost

----------------------------------------------------------------------------
\* Platform helpers.

\* Handler.post: a thread that has quit (or was never started) drops the message.
Accepts(t) == t = 0 \/ thrState[t] = "alive"
Post(q, t, m) == IF Accepts(t) THEN [q EXCEPT ![t] = Append(@, m)] ELSE q

\* CameraDevice.close(): the device and every capture session on it are closed.
SessAfterDeviceClose(ss, h) ==
    [s \in Sessions |->
        IF sessDev[s] = h /\ ss[s] \in {"configuring", "configured"}
        THEN "closed" ELSE ss[s]]
RepeatingAfter(ss) == [s \in Sessions |-> repeating[s] /\ ss[s] = "configured"]
PendingAfter(ss) ==
    [s \in Sessions |-> IF ss[s] = "configured" THEN pendingCapture[s] ELSE 0]

\* The first unused object index (each openCamera call makes thread k and
\* camera k; each startPreview call makes reader r and session r).
NextThread == CHOOSE k \in BgThreads : thrState[k] = "none" /\ \A j \in 1 .. k - 1 : thrState[j] # "none"
NextReader == CHOOSE r \in Sessions : rdrState[r] = "none" /\ \A j \in 1 .. r - 1 : rdrState[j] # "none"

\* sendEvent: emit on the single event channel.
sendEvent(ev, e) == Append(ev, e)

HeadIs(t, cb) == cur[t] = Idle /\ queue[t] # <<>> /\ Head(queue[t]).cb = cb
Running(t, op, pc) == cur[t].op = op /\ cur[t].pc = pc
\* The native-modules thread is free to take the next host command.
HostFree == fault = "none" /\ cur[0] = Idle /\ nCmds < MaxCmds

----------------------------------------------------------------------------
\* The state of the session state machine (spec section 4.2) that the module's
\* fields, the platform objects and the events sent so far stand for. The
\* module keeps no state variable; this is the observer's reading, recorded
\* with each host command as the state the command was issued in.
LifecycleEvents == {"opened", "disconnected", "error", "closed"}
LastLifecycle ==
    LET idx == {i \in 1 .. Len(events) : events[i].status \in LifecycleEvents}
    IN IF idx = {} THEN "-"
       ELSE events[CHOOSE i \in idx : \A j \in idx : j <= i].status
SessionState ==
    IF cur[0].op = "closeCamera" THEN "Closing"
    ELSE IF \E t \in Threads : cur[t].op \in {"onDisconnected", "onError"} THEN "Errored"
    ELSE IF cameraDevice # NoObject /\ camState[cameraDevice] # "closed"
    THEN IF /\ captureSession # NoObject
            /\ sessState[captureSession] = "configured"
            /\ sessDev[captureSession] = cameraDevice
            /\ repeating[captureSession]
         THEN IF pendingCapture[captureSession] > 0 THEN "Capturing" ELSE "Previewing"
         ELSE IF \E s \in Sessions : /\ sessState[s] \in {"configuring", "configured"}
                                     /\ sessDev[s] = cameraDevice
         THEN "PreviewStarting"
         ELSE "Open"
    ELSE IF \E h \in Handles : camState[h] = "opening" THEN "Opening"
    ELSE IF LastLifecycle \in {"disconnected", "error"} THEN "Errored"
    ELSE IF LastLifecycle = "closed" THEN "Closed"
    ELSE "Idle"

NoRun == [calls |-> 0, start |-> 0]

----------------------------------------------------------------------------
\* Host commands (native-modules thread, thread 0).

\* openCamera: permission check, startBackgroundThread, cameraManager.openCamera.
openCamera(cameraId, granted, accessException) ==
    /\ HostFree
    /\ \E k \in BgThreads : thrState[k] = "none"
    /\ closeRun' = NoRun
    /\ nCmds' = nCmds + 1
    /\ IF ~granted
       THEN /\ hostResult' = Result("openCamera", "PERMISSION_DENIED", SessionState)
            /\ UNCHANGED <<fields, cams, thrState, openPromise>>
       ELSE /\ thrState' = [thrState EXCEPT ![NextThread] = "alive"]
            /\ backgroundThread' = NextThread
            /\ UNCHANGED <<cameraDevice, captureSession, imageReader, camCloses>>
            /\ IF accessException
               THEN /\ hostResult' = Result("openCamera", "CAMERA_ERROR", SessionState)
                    /\ openPromise' = [openPromise EXCEPT ![NextThread] = "rejected"]
                    /\ UNCHANGED <<camState, camId>>
               ELSE /\ camState' = [camState EXCEPT ![NextThread] = "opening"]
                    /\ camId' = [camId EXCEPT ![NextThread] = cameraId]
                    /\ openPromise' = [openPromise EXCEPT ![NextThread] = "pending"]
                    /\ hostResult' = Result("openCamera", "pending", SessionState)
    /\ UNCHANGED previewPromise
    /\ UNCHANGED <<queue, cur, sess, rdrs, events, fault, nFrames>>
    /\ UNCHANGED aside

\* startPreview, lines 212-245: the null check, then the ImageReader of the
\* requested size and its listener. The size is checked against nothing.
startPreview_reader(size) ==
    /\ HostFree
    /\ \E r \in Sessions : rdrState[r] = "none"
    /\ closeRun' = NoRun
    /\ nCmds' = nCmds + 1
    /\ IF cameraDevice = NoObject
       THEN /\ hostResult' = Result("startPreview", "NO_CAMERA", SessionState)
            /\ UNCHANGED <<fields, rdrs, cur>>
       ELSE /\ imageReader' = NextReader
            /\ rdrState' = [rdrState EXCEPT ![NextReader] = "open"]
            /\ rdrThread' = [rdrThread EXCEPT ![NextReader] = backgroundThread]
            /\ rdrSize' = [rdrSize EXCEPT ![NextReader] = size]
            /\ cur' = [cur EXCEPT ![0] = Step("startPreview", 2, NextReader, SessionState)]
            /\ UNCHANGED <<cameraDevice, captureSession, backgroundThread, rdrImage, hostResult>>
    /\ UNCHANGED <<cams, thrState, queue, sess, events, fault, nFrames>>
    /\ UNCHANGED promises
    /\ UNCHANGED aside

\* startPreview, lines 248-286: cameraDevice.createCaptureSession. A new
\* session on a device closes the device's earlier sessions.
startPreview_session ==
    /\ fault = "none"
    /\ Running(0, "startPreview", 2)
    /\ cur' = [cur EXCEPT ![0] = Idle]
    /\ IF cameraDevice = NoObject
       THEN /\ fault' = "NullPointerException"
            /\ hostResult' = Result("startPreview", "NullPointerException", cur[0].ctx)
            /\ UNCHANGED <<sess, previewPromise>>
       ELSE IF camState[cameraDevice] = "lost"
       THEN /\ hostResult' = Result("startPreview", "CAMERA_ERROR", cur[0].ctx)
            /\ previewPromise' = [previewPromise EXCEPT ![cur[0].obj] = "rejected"]
            /\ UNCHANGED <<sess, fault>>
       ELSE LET s == cur[0].obj
                closed == SessAfterDeviceClose(sessState, cameraDevice)
            IN /\ sessState' = [closed EXCEPT ![s] = "configuring"]
               /\ sessDev' = [sessDev EXCEPT ![s] = cameraDevice]
               /\ sessThread' = [sessThread EXCEPT ![s] = backgroundThread]
               /\ repeating' = RepeatingAfter(closed)
               /\ pendingCapture' = PendingAfter(closed)
               /\ hostResult' = Result("startPreview", "pending", cur[0].ctx)
               /\ previewPromise' = [previewPromise EXCEPT ![s] = "pending"]
               /\ UNCHANGED fault
    /\ UNCHANGED openPromise
    /\ UNCHANGED <<fields, cams, thrState, queue, rdrs, events, counters, closeRun>>
    /\ UNCHANGED aside

\* captureImage, lines 291-294: the session check.
captureImage_check ==
    /\ HostFree
    /\ closeRun' = NoRun
    /\ nCmds' = nCmds + 1
    /\ IF captureSession = NoObject
       THEN /\ hostResult' = Result("captureImage", "NO_SESSION", SessionState)
            /\ UNCHANGED cur
       ELSE /\ cur' = [cur EXCEPT ![0] = Step("captureImage", 2, 0, SessionState)]
            /\ UNCHANGED hostResult
    /\ UNCHANGED <<fields, cams, thrState, queue, sess, rdrs, events, fault, nFrames>>
    /\ UNCHANGED promises
    /\ UNCHANGED aside

\* captureImage, lines 296-308: createCaptureRequest on cameraDevice, addTarget
\* of imageReader's surface, captureSession.capture. Only CameraAccessException
\* is caught.
captureImage_request ==
    /\ fault = "none"
    /\ Running(0, "captureImage", 2)
    /\ cur' = [cur EXCEPT ![0] = Idle]
    /\ IF cameraDevice = NoObject \/ imageReader = NoObject \/ captureSession = NoObject
       THEN /\ fault' = "NullPointerException"
            /\ hostResult' = Result("captureImage", "NullPointerException", cur[0].ctx)
            /\ UNCHANGED pendingCapture
       ELSE IF sessState[captureSession] # "configured"
       THEN /\ fault' = "IllegalStateException"
            /\ hostResult' = Result("captureImage", "IllegalStateException", cur[0].ctx)
            /\ UNCHANGED pendingCapture
       ELSE IF imageReader # captureSession   \* the target is no output of this session
       THEN /\ fault' = "IllegalArgumentException"
            /\ hostResult' = Result("captureImage", "IllegalArgumentException", cur[0].ctx)
            /\ UNCHANGED pendingCapture
       ELSE IF camState[cameraDevice] = "lost" \/ camState[sessDev[captureSession]] = "lost"
       THEN /\ hostResult' = Result("captureImage", "CAPTURE_ERROR", cur[0].ctx)
            /\ UNCHANGED <<pendingCapture, fault>>
       ELSE /\ pendingCapture' = [pendingCapture EXCEPT ![captureSession] = @ + 1]
            /\ hostResult' = Result("captureImage", "initiated", cur[0].ctx)
            /\ UNCHANGED fault
    /\ UNCHANGED <<fields, cams, thrState, queue, sessState, sessDev, sessThread,
                   repeating, rdrs, events, counters, closeRun>>
    /\ UNCHANGED promises
    /\ UNCHANGED aside

\* closeCamera, lines 315-330, and stopBackgroundThread, lines 346-347: the
\* session, the device and the reader are closed and their fields cleared, and
\* the background thread is told to quit (quitSafely). These steps touch no
\* field a callback reads between them other than through the closed objects.
closeCamera_release ==
    /\ HostFree
    /\ nCmds' = nCmds + 1
    /\ closeRun' = IF closeRun.calls = 0 THEN [calls |-> 0, start |-> Len(events)]
                   ELSE closeRun
    /\ cur' = [cur EXCEPT ![0] = Step("closeCamera", 2, 0, SessionState)]
    /\ captureSession' = NoObject
    /\ cameraDevice' = NoObject
    /\ imageReader' = NoObject
    /\ LET own == IF captureSession = NoObject THEN sessState
                  ELSE [sessState EXCEPT ![captureSession] =
                           IF @ \in {"configuring", "configured"} THEN "closed" ELSE @]
           closed == IF cameraDevice = NoObject THEN own
                     ELSE SessAfterDeviceClose(own, cameraDevice)
       IN /\ sessState' = closed
          /\ repeating' = RepeatingAfter(closed)
          /\ pendingCapture' = PendingAfter(closed)
    /\ IF cameraDevice = NoObject
       THEN UNCHANGED <<camState, camCloses>>
       ELSE /\ camState' = [camState EXCEPT ![cameraDevice] = "closed"]
            /\ camCloses' = [camCloses EXCEPT ![cameraDevice] = @ + 1]
    /\ IF imageReader = NoObject
       THEN UNCHANGED <<rdrState, rdrImage>>
       ELSE /\ rdrState' = [rdrState EXCEPT ![imageReader] = "closed"]
            /\ rdrImage' = [rdrImage EXCEPT ![imageReader] = "none"]
    /\ thrState' = IF backgroundThread = NoObject THEN thrState
                   ELSE [thrState EXCEPT ![backgroundThread] = "quitting"]
    /\ UNCHANGED <<backgroundThread, camId, queue, sessDev, sessThread, rdrThread,
                   rdrSize, events, hostResult, fault, nFrames>>
    /\ UNCHANGED promises
    /\ UNCHANGED aside

\* The thread has run the messages it held when quitSafely was called.
Drained(t) == queue[t] = <<>> /\ cur[t] = Idle

\* stopBackgroundThread, lines 349-351 (join returns, the thread fields are
\* cleared), then closeCamera, lines 332-336: the closed event and the promise.
closeCamera_closed ==
    /\ fault = "none"
    /\ Running(0, "closeCamera", 2)
    /\ backgroundThread # NoObject => Drained(backgroundThread)
    /\ cur' = [cur EXCEPT ![0] = Idle]
    /\ thrState' = IF backgroundThread = NoObject THEN thrState
                   ELSE [thrState EXCEPT ![backgroundThread] = "dead"]
    /\ backgroundThread' = NoObject
    /\ events' = sendEvent(events, Event("USBCameraEvent", "closed", "-", 0, "-", NoObject))
    /\ hostResult' = Result("closeCamera", "resolved", cur[0].ctx)
    /\ closeRun' = [closeRun EXCEPT !.calls = @ + 1]
    /\ UNCHANGED <<cameraDevice, captureSession, imageReader, cams, queue, sess, rdrs,
                   fault, counters>>
    /\ UNCHANGED promises
    /\ UNCHANGED aside

----------------------------------------------------------------------------
\* The hardware: what the camera service reports, posted to the Handler the
\* module registered.

HwOpened(h) ==
    /\ fault = "none"
    /\ camState[h] = "opening"
    /\ camState' = [camState EXCEPT ![h] = "opened"]
    /\ queue' = Post(queue, h, Msg("onOpened", h, 0))
    /\ UNCHANGED <<fields, camId, camCloses, thrState, cur, sess, rdrs, events,
                   hostResult, fault, counters, closeRun>>
    /\ UNCHANGED promises
    /\ UNCHANGED aside

HwDisconnected(h) ==
    /\ fault = "none"
    /\ camState[h] \in {"opening", "opened"}
    /\ camState' = [camState EXCEPT ![h] = "lost"]
    /\ queue' = Post(queue, h, Msg("onDisconnected", h, 0))
    /\ UNCHANGED <<fields, camId, camCloses, thrState, cur, sess, rdrs, events,
                   hostResult, fault, counters, closeRun>>
    /\ UNCHANGED promises
    /\ UNCHANGED aside

HwError(h, code) ==
    /\ fault = "none"
    /\ camState[h] \in {"opening", "opened"}
    /\ camState' = [camState EXCEPT ![h] = "lost"]
    /\ queue' = Post(queue, h, Msg("onError", h, code))
    /\ UNCHANGED <<fields, camId, camCloses, thrState, cur, sess, rdrs, events,
                   hostResult, fault, counters, closeRun>>
    /\ UNCHANGED promises
    /\ UNCHANGED aside

\* The session's one output is the reader's surface; a surface of a size the
\* camera does not list cannot be configured.
HwConfigured(s) ==
    /\ fault = "none"
    /\ sessState[s] = "configuring"
    /\ camState[sessDev[s]] = "opened"
    /\ rdrState[s] = "open"
    /\ rdrSize[s] \in OutputSizes[camId[sessDev[s]]]
    /\ sessState' = [sessState EXCEPT ![s] = "configured"]
    /\ queue' = Post(queue, sessThread[s], Msg("onConfigured", s, 0))
    /\ UNCHANGED <<fields, cams, thrState, cur, sessDev, sessThread, repeating,
                   pendingCapture, rdrs, events, hostResult, fault, counters, closeRun>>
    /\ UNCHANGED promises
    /\ UNCHANGED aside

HwConfigureFailed(s) ==
    /\ fault = "none"
    /\ sessState[s] = "configuring"
    /\ sessState' = [sessState EXCEPT ![s] = "failed"]
    /\ queue' = Post(queue, sessThread[s], Msg("onConfigureFailed", s, 0))
    /\ UNCHANGED <<fields, cams, thrState, cur, sessDev, sessThread, repeating,
                   pendingCapture, rdrs, events, hostResult, fault, counters, closeRun>>
    /\ UNCHANGED promises
    /\ UNCHANGED aside

\* A frame reaches the reader's one buffer (maxImages = 1): from the repeating
\* preview request, or the frame of a pending still capture. Frames already in
\* the pipeline still arrive after the device is lost, until it is closed.
HwFrame(s, kind) ==
    /\ fault = "none"
    /\ nFrames < MaxFrames
    /\ sessState[s] = "configured"
    /\ camState[sessDev[s]] \in {"opened", "lost"}
    /\ rdrState[s] = "open"
    /\ rdrImage[s] = "none"
    /\ IF kind = "capture" THEN pendingCapture[s] > 0 ELSE repeating[s]
    /\ pendingCapture' = IF kind = "capture" THEN [pendingCapture EXCEPT ![s] = @ - 1]
                         ELSE pendingCapture
    /\ rdrImage' = [rdrImage EXCEPT ![s] = kind]
    /\ nFrames' = nFrames + 1
    /\ queue' = Post(queue, rdrThread[s], Msg("onImageAvailable", s, 0))
    /\ UNCHANGED <<fields, cams, thrState, cur, sessState, sessDev, sessThread,
                   repeating, rdrState, rdrThread, rdrSize, events, hostResult,
                   fault, nCmds, closeRun>>
    /\ UNCHANGED promises
    /\ UNCHANGED aside

----------------------------------------------------------------------------
\* Callbacks, each on the thread t whose Handler was registered for it.

DeviceCallbacks == {"onOpened", "onDisconnected", "onError"}
\* A closed CameraDevice or ImageReader delivers nothing that was still queued.
Stale(m) ==
    \/ m.cb \in DeviceCallbacks /\ camState[m.obj] = "closed"
    \/ m.cb = "onImageAvailable" /\ rdrState[m.obj] = "closed"
Deliver(t, cb) == fault = "none" /\ HeadIs(t, cb) /\ ~Stale(Head(queue[t]))

dropStale(t) ==
    /\ fault = "none"
    /\ cur[t] = Idle
    /\ queue[t] # <<>>
    /\ Stale(Head(queue[t]))
    /\ queue' = Pop(queue, t)
    /\ UNCHANGED <<fields, cams, thrState, cur, sess, rdrs, events, hostResult,
                   fault, counters, closeRun>>
    /\ UNCHANGED promises
    /\ UNCHANGED aside

\* onOpened, line 167: cameraDevice = camera.
onOpened_set(t) ==
    /\ Deliver(t, "onOpened")
    /\ queue' = Pop(queue, t)
    /\ cur' = [cur EXCEPT ![t] = Step("onOpened", 2, Head(queue[t]).obj, "-")]
    /\ cameraDevice' = Head(queue[t]).obj
    /\ UNCHANGED <<captureSession, imageReader, backgroundThread, cams, thrState,
                   sess, rdrs, events, hostResult, fault, counters, closeRun>>
    /\ UNCHANGED promises
    /\ UNCHANGED aside

\* onOpened, lines 170-175: the opened event, then the promise.
onOpened_event(t) ==
    /\ fault = "none"
    /\ Running(t, "onOpened", 2)
    /\ cur' = [cur EXCEPT ![t] = Idle]
    /\ events' = sendEvent(events, Event("USBCameraEvent", "opened", camId[cur[t].obj], 0, "-", cur[t].obj))
    /\ openPromise' = [openPromise EXCEPT ![cur[t].obj] = "resolved"]
    /\ UNCHANGED previewPromise
    /\ UNCHANGED <<fields, cams, thrState, queue, sess, rdrs, hostResult, fault,
                   counters, closeRun>>
    /\ UNCHANGED aside

\* onDisconnected lines 181-182 and onError lines 193-194:
\* camera.close(); cameraDevice = null.
closeAndClear(t, cb) ==
    /\ Deliver(t, cb)
    /\ queue' = Pop(queue, t)
    /\ cur' = [cur EXCEPT ![t] = StepArg(cb, 2, Head(queue[t]).obj, Head(queue[t]).arg)]
    /\ cameraDevice' = NoObject
    /\ LET h == Head(queue[t]).obj
           closed == SessAfterDeviceClose(sessState, h)
       IN /\ camState' = [camState EXCEPT ![h] = "closed"]
          /\ camCloses' = [camCloses EXCEPT ![h] = @ + 1]
          /\ sessState' = closed
          /\ repeating' = RepeatingAfter(closed)
          /\ pendingCapture' = PendingAfter(closed)
    /\ UNCHANGED <<captureSession, imageReader, backgroundThread, camId, thrState,
                   sessDev, sessThread, rdrs, events, hostResult, fault, counters,
                   closeRun>>
    /\ UNCHANGED promises
    /\ UNCHANGED aside

onDisconnected_close(t) == closeAndClear(t, "onDisconnected")

\* onDisconnected, lines 184-187: the disconnected event.
onDisconnected_event(t) ==
    /\ fault = "none"
    /\ Running(t, "onDisconnected", 2)
    /\ cur' = [cur EXCEPT ![t] = Idle]
    /\ events' = sendEvent(events, Event("USBCameraEvent", "disconnected", camId[cur[t].obj], 0, "-", cur[t].obj))
    /\ UNCHANGED <<fields, cams, thrState, queue, sess, rdrs, hostResult, fault,
                   counters, closeRun>>
    /\ UNCHANGED promises
    /\ UNCHANGED aside

onError_close(t) == closeAndClear(t, "onError")

\* onError, lines 196-200: the error event with the error code.
onError_event(t) ==
    /\ fault = "none"
    /\ Running(t, "onError", 2)
    /\ cur' = [cur EXCEPT ![t] = Idle]
    /\ events' = sendEvent(events, Event("USBCameraEvent", "error", camId[cur[t].obj], cur[t].arg, "-", cur[t].obj))
    /\ UNCHANGED <<fields, cams, thrState, queue, sess, rdrs, hostResult, fault,
                   counters, closeRun>>
    /\ UNCHANGED promises
    /\ UNCHANGED aside

\* onConfigured, line 254: captureSession = session.
onConfigured_set(t) ==
    /\ Deliver(t, "onConfigured")
    /\ queue' = Pop(queue, t)
    /\ cur' = [cur EXCEPT ![t] = Step("onConfigured", 2, Head(queue[t]).obj, "-")]
    /\ captureSession' = Head(queue[t]).obj
    /\ UNCHANGED <<cameraDevice, imageReader, backgroundThread, cams, thrState,
                   sess, rdrs, events, hostResult, fault, counters, closeRun>>
    /\ UNCHANGED promises
    /\ UNCHANGED aside

\* onConfigured, lines 256-262: createCaptureRequest on cameraDevice, addTarget
\* of imageReader's surface, session.setRepeatingRequest. Only
\* CameraAccessException is caught (lines 270-273: the promise is rejected).
onConfigured_request(t) ==
    /\ fault = "none"
    /\ Running(t, "onConfigured", 2)
    /\ LET s == cur[t].obj IN
       IF cameraDevice = NoObject \/ imageReader = NoObject
       THEN /\ fault' = "NullPointerException"
            /\ UNCHANGED <<repeating, cur, previewPromise>>
       ELSE IF sessState[s] # "configured"
       THEN /\ fault' = "IllegalStateException"
            /\ UNCHANGED <<repeating, cur, previewPromise>>
       ELSE IF imageReader # s   \* the target is no output of this session
       THEN /\ fault' = "IllegalArgumentException"
            /\ UNCHANGED <<repeating, cur, previewPromise>>
       ELSE IF camState[cameraDevice] = "lost" \/ camState[sessDev[s]] = "lost"
       THEN /\ cur' = [cur EXCEPT ![t] = Idle]
            /\ previewPromise' = [previewPromise EXCEPT ![s] = "rejected"]
            /\ UNCHANGED <<repeating, fault>>
       ELSE /\ repeating' = [repeating EXCEPT ![s] = TRUE]
            /\ cur' = [cur EXCEPT ![t].pc = 3]
            /\ UNCHANGED <<fault, previewPromise>>
    /\ UNCHANGED openPromise
    /\ UNCHANGED <<fields, cams, thrState, queue, sessState, sessDev, sessThread,
                   pendingCapture, rdrs, events, hostResult, counters, closeRun>>
    /\ UNCHANGED aside

\* onConfigured, lines 264-268: the preview_started event, then the promise.
onConfigured_event(t) ==
    /\ fault = "none"
    /\ Running(t, "onConfigured", 3)
    /\ cur' = [cur EXCEPT ![t] = Idle]
    /\ events' = sendEvent(events, Event("USBCameraEvent", "preview_started", "-", 0, "-", sessDev[cur[t].obj]))
    /\ previewPromise' = [previewPromise EXCEPT ![cur[t].obj] = "resolved"]
    /\ UNCHANGED openPromise
    /\ UNCHANGED <<fields, cams, thrState, queue, sess, rdrs, hostResult, fault,
                   counters, closeRun>>
    /\ UNCHANGED aside

\* onConfigureFailed, lines 277-280: the promise is rejected; nothing else.
onConfigureFailed(t) ==
    /\ Deliver(t, "onConfigureFailed")
    /\ queue' = Pop(queue, t)
    /\ previewPromise' = [previewPromise EXCEPT ![Head(queue[t]).obj] = "rejected"]
    /\ UNCHANGED openPromise
    /\ UNCHANGED <<fields, cams, thrState, cur, sess, rdrs, events, hostResult,
                   fault, counters, closeRun>>
    /\ UNCHANGED aside

\* onImageAvailable, lines 226-227: reader.acquireLatestImage().
onImageAvailable_acquire(t) ==
    /\ Deliver(t, "onImageAvailable")
    /\ queue' = Pop(queue, t)
    /\ cur' = IF rdrImage[Head(queue[t]).obj] = "none" THEN cur
              ELSE [cur EXCEPT ![t] = Step("onImageAvailable", 2, Head(queue[t]).obj,
                                            rdrImage[Head(queue[t]).obj])]
    /\ UNCHANGED <<fields, cams, thrState, sess, rdrs, events, hostResult, fault,
                   counters, closeRun>>
    /\ UNCHANGED promises
    /\ UNCHANGED aside

\* onImageAvailable, lines 231-242: read and encode the buffer, the
\* USBCameraImageCaptured event, image.close(). The image of a reader that was
\* closed meanwhile throws IllegalStateException. fails: the byte array or the
\* base64 string of the frame cannot be allocated; nothing catches the error
\* and image.close() (line 241, in no finally block) is not reached.
onImageAvailable_event(t, fails) ==
    /\ fault = "none"
    /\ Running(t, "onImageAvailable", 2)
    /\ IF rdrState[cur[t].obj] = "closed"
       THEN /\ fault' = "IllegalStateException"
            /\ UNCHANGED <<cur, events, rdrImage>>
       ELSE IF fails
       THEN /\ fault' = "OutOfMemoryError"
            /\ UNCHANGED <<cur, events, rdrImage>>
       ELSE /\ cur' = [cur EXCEPT ![t] = Idle]
            /\ events' = sendEvent(events, Event("USBCameraImageCaptured", "-", "-", 0, cur[t].ctx, sessDev[cur[t].obj]))
            /\ rdrImage' = [rdrImage EXCEPT ![cur[t].obj] = "none"]
            /\ UNCHANGED fault
    /\ UNCHANGED <<fields, cams, thrState, queue, sess, rdrState, rdrThread,
                   rdrSize, hostResult, counters, closeRun>>
    /\ UNCHANGED promises
    /\ UNCHANGED aside

----------------------------------------------------------------------------
Next ==
    \/ \E id \in CameraIds, granted \in BOOLEAN, ex \in BOOLEAN : openCamera(id, granted, ex)
    \/ \E size \in Sizes : startPreview_reader(size)
    \/ startPreview_session
    \/ captureImage_check
    \/ captureImage_request
    \/ closeCamera_release
    \/ closeCamera_closed
    \/ \E h \in Handles : HwOpened(h)
    \/ \E h \in Handles : HwDisconnected(h)
    \/ \E h \in Handles, code \in ErrorCodes : HwError(h, code)
    \/ \E s \in Sessions : HwConfigured(s)
    \/ \E s \in Sessions : HwConfigureFailed(s)
    \/ \E s \in Sessions, kind \in {"preview", "capture"} : HwFrame(s, kind)
    \/ \E t \in Threads : dropStale(t)
    \/ \E t \in Threads : onOpened_set(t)
    \/ \E t \in Threads : onOpened_event(t)
    \/ \E t \in Threads : onDisconnected_close(t)
    \/ \E t \in Threads : onDisconnected_event(t)
    \/ \E t \in Threads : onError_close(t)
    \/ \E t \in Threads : onError_event(t)
    \/ \E t \in Threads : onConfigured_set(t)
    \/ \E t \in Threads : onConfigured_request(t)
    \/ \E t \in Threads : onConfigured_event(t)
    \/ \E t \in Threads : onConfigureFailed(t)
    \/ \E t \in Threads : onImageAvailable_acquire(t)
    \/ \E t \in Threads, fails \in BOOLEAN : onImageAvailable_event(t, fails)

Spec == Init /\ [][Next]_vars

----------------------------------------------------------------------------
\* getAvailableCameras (src/unnamed/part_015, lines 62-148). It reads and
\* writes no field of the module; the cameras are the platform's.

\* CameraCharacteristics.LENS_FACING: absent (Java null, the empty sequence
\* here) or one of the three values of the platform.
LENS_FACING_FRONT == 0
LENS_FACING_BACK == 1
LENS_FACING_EXTERNAL == 2
Facings == {<<>>, <<LENS_FACING_FRONT>>, <<LENS_FACING_BACK>>, <<LENS_FACING_EXTERNAL>>}
\* One camera of the platform; fails: getCameraCharacteristics throws
\* CameraAccessException for it.
HwCamera == [facing : Facings, fails : BOOLEAN]

\* The null branch leaves the initial value "unknown".
cameraType_absentUnknown(facing) ==
    IF facing # <<>>
    THEN CASE Head(facing) = LENS_FACING_FRONT -> "front"
           [] Head(facing) = LENS_FACING_BACK -> "back"
           [] Head(facing) = LENS_FACING_EXTERNAL -> "external"
           [] OTHER -> "unknown"
    ELSE "unknown"

\* Lines 76-101: cameraType, from "unknown" through the switch on facing.
cameraType(facing) ==
    IF facing # <<>>
    THEN CASE Head(facing) = LENS_FACING_FRONT -> "front"
           [] Head(facing) = LENS_FACING_BACK -> "back"
           [] Head(facing) = LENS_FACING_EXTERNAL -> "external"
           [] OTHER -> "unknown"
    ELSE "external"

\* Lines 77-101: isUSBCamera, set where cameraType becomes "external".
isUSBCamera(facing) ==
    IF facing # <<>> THEN Head(facing) = LENS_FACING_EXTERNAL ELSE TRUE

\* Lines 119-131: the map pushed for one camera (the resolutions are left out).
cameraInfo(id, facing) ==
    [id |-> id,
     type |-> cameraType(facing),
     isUSBCamera |-> isUSBCamera(facing),
     name |-> IF isUSBCamera(facing) THEN "USB Digital Microscope"
              ELSE CASE cameraType(facing) = "front" -> "Phone Camera (front)"
                     [] cameraType(facing) = "back" -> "Phone Camera (back)"
                     [] OTHER -> "Phone Camera (unknown)"]

\* Lines 69-137: the loop over cameraIds, after its first n rounds. A camera
\* whose characteristics cannot be read is logged and left out. The id of a
\* camera is its place in getCameraIdList.
RECURSIVE cameras(_)
cameras(n) ==
    IF n = 0 THEN <<>>
    ELSE IF hwCameras[n].fails THEN cameras(n - 1)
    ELSE Append(cameras(n - 1), cameraInfo(n, hwCameras[n].facing))

\* A camera is attached to the device.
HwAttach(c) ==
    /\ Len(hwCameras) < MaxCameras
    /\ hwCameras' = Append(hwCameras, c)
    /\ UNCHANGED <<listResult, session, mock, hostc>>

\* getAvailableCameras; listFails: getCameraIdList throws CameraAccessException.
getAvailableCameras(listFails) ==
    /\ listResult' = IF listFails THEN [outcome |-> "CAMERA_ERROR", cameras |-> <<>>]
                     ELSE [outcome |-> "resolved", cameras |-> cameras(Len(hwCameras))]
    /\ UNCHANGED <<hwCameras, session, mock, hostc>>

NextCameras ==
    \/ \E c \in HwCamera : HwAttach(c)
    \/ \E listFails \in BOOLEAN : getAvailableCameras(listFails)

SpecCameras == Init /\ [][NextCameras]_vars

----------------------------------------------------------------------------
\* mockUsbMicroscopeManager (src/unnamed/part_003, lines 540-635), the
\* microscope manager of the test suite. Each call is logged with the message
\* of the error it threw ("-" when it returned).

NotConnected == "Microscope not connected"
MockCall(op, error) == [op |-> op, error |-> error]
Called(op, error) ==
    /\ Len(mockCalls) < MaxMockCalls
    /\ mockCalls' = Append(mockCalls, MockCall(op, error))
\* Lines 589-591, 605-607, 612-614: if (!this.isConnected) throw.
Guard == IF mockUsbMicroscopeManager.isConnected THEN "-" ELSE NotConnected

initialize ==
    /\ Called("initialize", "-")
    /\ UNCHANGED <<mockUsbMicroscopeManager, session, listing, hostc>>

getConnectionStatus ==
    /\ Called("getConnectionStatus", "-")
    /\ UNCHANGED <<mockUsbMicroscopeManager, session, listing, hostc>>

manualConnect ==
    /\ Called("manualConnect", "-")
    /\ mockUsbMicroscopeManager' =
           [isConnected |-> TRUE, device |-> "test_device_001", stream |-> "active"]
    /\ UNCHANGED <<session, listing, hostc>>

mockCaptureImage ==
    /\ Called("captureImage", Guard)
    /\ UNCHANGED <<mockUsbMicroscopeManager, session, listing, hostc>>

setSettings ==
    /\ Called("setSettings", Guard)
    /\ UNCHANGED <<mockUsbMicroscopeManager, session, listing, hostc>>

getSettings ==
    /\ Called("getSettings", Guard)
    /\ UNCHANGED <<mockUsbMicroscopeManager, session, listing, hostc>>

\* A cleanup that drops the device and the stream but keeps isConnected.
cleanup_keepsConnected ==
    /\ Called("cleanup", "-")
    /\ mockUsbMicroscopeManager' =
           [mockUsbMicroscopeManager EXCEPT !.device = "null", !.stream = "null"]
    /\ UNCHANGED <<session, listing, hostc>>

cleanup ==
    /\ Called("cleanup", "-")
    /\ mockUsbMicroscopeManager' =
           [isConnected |-> FALSE, device |-> "null", stream |-> "null"]
    /\ UNCHANGED <<session, listing, hostc>>

NextMock ==
    \/ initialize
    \/ getConnectionStatus
    \/ manualConnect
    \/ mockCaptureImage
    \/ setSettings
    \/ getSettings
    \/ cleanup

SpecMock == Init /\ [][NextMock]_vars

----------------------------------------------------------------------------
\* The host component NativeUSBCamera (src/unnamed/part_007). Its handlers run
\* on the JS thread, one at a time. The effect of lines 34-40 has no
\* dependencies: initializeUSBCamera, cleanup and the event listeners it sets
\* up are those of the first render and read the useState values of that
\* render (FirstRender), whatever was set since. The handlers of the buttons
\* are those of the current render. The camera a camera button stands for is
\* an input of switchCamera here: the handlers are checked for every camera
\* they can be given. In the component the camera buttons are rendered from
\* the cameras state (line 363), which only detectCameras fills, so as long as
\* initializeUSBCamera skips detectCameras no camera button is on screen.

\* The native module as seen from the component (src/unnamed/part_015): the
\* CameraDevice objects, which of them cameraDevice refers to, whether
\* captureSession is set, the camera whose session is being configured and the
\* camera whose session delivers frames.
NativeOk == native.fault = "none"
NativeOpen == {h \in NativeCams : native.cam[h] = "opened"}
NextCam == CHOOSE h \in NativeCams :
               native.cam[h] = "none" /\ \A j \in 1 .. h - 1 : native.cam[j] # "none"
\* A call of a native method, with the number of cameras open at the call.
Call(m) == [m |-> m, open |-> Cardinality(NativeOpen)]

\* USBCameraModule.openCamera, part_015 lines 151-208.
nativeOpenCamera(nv) ==
    IF ~nv.granted THEN nv ELSE [nv EXCEPT !.cam[NextCam] = "opening"]
\* USBCameraModule.startPreview, part_015 lines 211-287.
nativeStartPreview(nv) ==
    IF nv.device = NoObject THEN nv
    ELSE [nv EXCEPT !.configuring = nv.device,
                    !.streaming = IF @ = nv.device THEN NoObject ELSE @]
\* USBCameraModule.captureImage, part_015 lines 290-309.
nativeCaptureImage(nv) ==
    IF ~nv.session THEN nv
    ELSE IF nv.device = NoObject THEN [nv EXCEPT !.fault = "NullPointerException"]
    ELSE IF nv.streaming = NoObject THEN [nv EXCEPT !.fault = "IllegalStateException"]
    ELSE nv
\* USBCameraModule.closeCamera, part_015 lines 312-337.
nativeCloseCamera(nv) ==
    [nv EXCEPT !.cam = IF nv.device = NoObject THEN @
                       ELSE [@ EXCEPT ![nv.device] = "closed"],
               !.device = NoObject,
               !.session = FALSE,
               !.streaming = IF nv.session \/ @ = nv.device THEN NoObject ELSE @,
               !.configuring = IF @ = nv.device THEN NoObject ELSE @]

\* requestCameraPermission, lines 99-129; result: what PermissionsAndroid.request
\* answers, or that it throws.
PermissionResults == {"granted", "denied", "never_ask_again", "throws"}
requestCameraPermission(rs, result) ==
    IF result = "throws" THEN [rs EXCEPT !.cameraStatus = "permission_error"]
    ELSE IF result = "granted" THEN [rs EXCEPT !.hasPermission = TRUE]
    ELSE [rs EXCEPT !.hasPermission = FALSE, !.cameraStatus = "permission_denied"]

\* detectCameras, lines 131-171, on the listing of getAvailableCameras.
detectCameras(rs) ==
    LET list == cameras(Len(hwCameras))
        usb == {k \in 1 .. Len(list) : list[k].isUSBCamera}
        back == {k \in 1 .. Len(list) : list[k].type = "back"}
        First(S) == CHOOSE k \in S : \A j \in S : k <= j
    IN IF usb # {}
       THEN [rs EXCEPT !.cameras = list, !.selectedCamera = ToString(list[First(usb)].id),
                       !.cameraStatus = "usb_camera_found"]
       ELSE IF back # {}
       THEN [rs EXCEPT !.cameras = list, !.selectedCamera = ToString(list[First(back)].id),
                       !.cameraStatus = "phone_camera_only"]
       ELSE [rs EXCEPT !.cameras = list, !.cameraStatus = "no_cameras"]

\* The effect on mount, lines 34-36, and initializeUSBCamera, lines 42-66:
\* setupEventListeners, requestCameraPermission, then detectCameras if the
\* hasPermission of the first render is set.
initializeUSBCamera(result) ==
    /\ lifecycle = "rendered"
    /\ lifecycle' = "mounted"
    /\ listeners' = TRUE
    /\ initResult' = result
    /\ native' = [native EXCEPT !.granted = (result = "granted")]
    /\ IF FirstRender.hasPermission
       THEN /\ react' = detectCameras(requestCameraPermission(react, result))
            /\ nativeCalls' = Append(nativeCalls, Call("getAvailableCameras"))
       ELSE /\ react' = requestCameraPermission(react, result)
            /\ UNCHANGED nativeCalls
    /\ UNCHANGED <<switching, jsQueue, session, listing, mock>>

\* The permission button, lines 343-353: requestCameraPermission.
pressGrantPermission(result) ==
    /\ lifecycle = "mounted"
    /\ ~react.hasPermission
    /\ native.granted => result = "granted"
    /\ react' = requestCameraPermission(react, result)
    /\ native' = [native EXCEPT !.granted = @ \/ result = "granted"]
    /\ UNCHANGED <<lifecycle, listeners, switching, jsQueue, nativeCalls, initResult,
                   session, listing, mock>>

\* openCamera, lines 173-186, as the last step of switchCamera.
openCameraStatus == IF native.granted THEN "opening" ELSE "open_error"

\* switchCamera, lines 273-285, up to its first await: closeCamera if
\* previewActive, else on to openCamera.
switchCamera(camera) ==
    /\ lifecycle = "mounted"
    /\ react.hasPermission
    /\ switching = "-"
    /\ NativeOk
    /\ Len(nativeCalls) < MaxHostCalls
    /\ IF react.previewActive
       THEN /\ native' = nativeCloseCamera(native)
            /\ nativeCalls' = Append(nativeCalls, Call("closeCamera"))
            /\ jsQueue' = Append(jsQueue, "closed")
            /\ switching' = camera
            /\ UNCHANGED react
       ELSE /\ react' = [react EXCEPT !.selectedCamera = camera,
                                      !.cameraStatus = openCameraStatus]
            /\ native' = nativeOpenCamera(native)
            /\ nativeCalls' = Append(nativeCalls, Call("openCamera"))
            /\ UNCHANGED <<switching, jsQueue>>
    /\ UNCHANGED <<lifecycle, listeners, initResult, session, listing, mock>>

\* switchCamera, lines 280-285, after closeCamera has returned.
switchCamera_open ==
    /\ switching # "-"
    /\ NativeOk
    /\ switching' = "-"
    /\ react' = IF lifecycle = "unmounted" THEN react
                ELSE [react EXCEPT !.previewActive = FALSE, !.selectedCamera = switching,
                                   !.cameraStatus = openCameraStatus]
    /\ native' = nativeOpenCamera(native)
    /\ nativeCalls' = Append(nativeCalls, Call("openCamera"))
    /\ UNCHANGED <<lifecycle, listeners, jsQueue, initResult, session, listing, mock>>

\* The capture button, lines 384-391, and captureImage, lines 204-220.
hostCaptureImage ==
    /\ lifecycle = "mounted"
    /\ react.hasPermission
    /\ react.selectedCamera # "null"
    /\ ~react.isCapturing
    /\ NativeOk
    /\ Len(nativeCalls) < MaxHostCalls
    /\ native' = nativeCaptureImage(native)
    /\ nativeCalls' = Append(nativeCalls, Call("captureImage"))
    /\ react' = [react EXCEPT !.isCapturing = native.session]
    /\ UNCHANGED <<lifecycle, listeners, switching, jsQueue, initResult, session,
                   listing, mock>>

\* handleCameraEvent, lines 222-247, with startPreview, lines 188-202, and
\* handleImageCaptured, lines 249-256. The rejection of the startPreview
\* promise reaches the component without a listener.
handleEvent ==
    /\ jsQueue # <<>>
    /\ NativeOk
    /\ jsQueue' = Tail(jsQueue)
    /\ LET e == Head(jsQueue) IN
       IF lifecycle = "unmounted" \/ (~listeners /\ e # "startPreview_rejected")
       THEN UNCHANGED <<react, native, nativeCalls>>
       ELSE IF e = "opened"
       THEN /\ react' = [react EXCEPT !.cameraStatus =
                            IF native.device = NoObject THEN "preview_error"
                            ELSE "starting_preview"]
            /\ native' = nativeStartPreview(native)
            /\ nativeCalls' = Append(nativeCalls, Call("startPreview"))
       ELSE /\ react' =
                CASE e = "disconnected" ->
                       [react EXCEPT !.cameraStatus = "disconnected", !.previewActive = FALSE]
                  [] e = "error" ->
                       [react EXCEPT !.cameraStatus = "camera_error", !.previewActive = FALSE]
                  [] e = "preview_started" ->
                       [react EXCEPT !.cameraStatus = "preview_active", !.previewActive = TRUE]
                  [] e = "startPreview_rejected" ->
                       [react EXCEPT !.cameraStatus = "preview_error"]
                  [] e = "image" -> [react EXCEPT !.isCapturing = FALSE]
                  [] OTHER -> react
            /\ UNCHANGED <<native, nativeCalls>>
    /\ UNCHANGED <<lifecycle, listeners, switching, initResult, session, listing, mock>>

\* The effect's cleanup on unmount, lines 37-39, and cleanup, lines 258-271:
\* the listeners are removed, and closeCamera is called if the previewActive
\* of the first render is set.
unmount ==
    /\ lifecycle = "mounted"
    /\ lifecycle' = "unmounted"
    /\ listeners' = FALSE
    /\ IF FirstRender.previewActive
       THEN /\ native' = nativeCloseCamera(native)
            /\ nativeCalls' = Append(nativeCalls, Call("closeCamera"))
            /\ jsQueue' = Append(jsQueue, "closed")
       ELSE UNCHANGED <<native, nativeCalls, jsQueue>>
    /\ UNCHANGED <<react, switching, initResult, session, listing, mock>>

\* onOpened, part_015 lines 165-176.
NativeOpened(h) ==
    /\ NativeOk
    /\ Len(jsQueue) < MaxJsQueue
    /\ native.cam[h] = "opening"
    /\ native' = [native EXCEPT !.cam[h] = "opened", !.device = h]
    /\ jsQueue' = Append(jsQueue, "opened")
    /\ UNCHANGED <<lifecycle, react, listeners, switching, nativeCalls, initResult,
                   session, listing, mock>>

\* onDisconnected and onError, part_015 lines 179-201: camera.close() and
\* cameraDevice = null.
closeAndClearNative(h) ==
    [native EXCEPT !.cam[h] = "closed", !.device = NoObject,
                   !.streaming = IF @ = h THEN NoObject ELSE @,
                   !.configuring = IF @ = h THEN NoObject ELSE @]

\* onDisconnected, part_015 lines 179-188.
NativeDisconnected(h) ==
    /\ NativeOk
    /\ native.cam[h] \in {"opening", "opened"}
    /\ Len(jsQueue) < MaxJsQueue
    /\ native' = closeAndClearNative(h)
    /\ jsQueue' = Append(jsQueue, "disconnected")
    /\ UNCHANGED <<lifecycle, react, listeners, switching, nativeCalls, initResult,
                   session, listing, mock>>

\* onError, part_015 lines 191-201.
NativeError(h) ==
    /\ NativeOk
    /\ native.cam[h] \in {"opening", "opened"}
    /\ Len(jsQueue) < MaxJsQueue
    /\ native' = closeAndClearNative(h)
    /\ jsQueue' = Append(jsQueue, "error")
    /\ UNCHANGED <<lifecycle, react, listeners, switching, nativeCalls, initResult,
                   session, listing, mock>>

\* onConfigured, part_015 lines 252-274.
NativeConfigured ==
    /\ NativeOk
    /\ Len(jsQueue) < MaxJsQueue
    /\ native.configuring # NoObject
    /\ IF native.device = NoObject
       THEN /\ native' = [native EXCEPT !.fault = "NullPointerException"]
            /\ UNCHANGED jsQueue
       ELSE /\ native' = [native EXCEPT !.session = TRUE, !.streaming = native.configuring,
                                        !.configuring = NoObject]
            /\ jsQueue' = Append(jsQueue, "preview_started")
    /\ UNCHANGED <<lifecycle, react, listeners, switching, nativeCalls, initResult,
                   session, listing, mock>>

\* onConfigureFailed, part_015 lines 277-280.
NativeConfigureFailed ==
    /\ NativeOk
    /\ Len(jsQueue) < MaxJsQueue
    /\ native.configuring # NoObject
    /\ native' = [native EXCEPT !.configuring = NoObject]
    /\ jsQueue' = Append(jsQueue, "startPreview_rejected")
    /\ UNCHANGED <<lifecycle, react, listeners, switching, nativeCalls, initResult,
                   session, listing, mock>>

\* onImageAvailable, part_015 lines 224-244: every frame of the session is
\* sent as USBCameraImageCaptured.
NativeFrame ==
    /\ NativeOk
    /\ native.streaming # NoObject
    /\ Len(jsQueue) < MaxJsQueue
    /\ \A i \in 1 .. Len(jsQueue) : jsQueue[i] # "image"
    /\ jsQueue' = Append(jsQueue, "image")
    /\ UNCHANGED <<lifecycle, react, listeners, switching, native, nativeCalls,
                   initResult, session, listing, mock>>

NextHost ==
    \/ \E result \in PermissionResults : initializeUSBCamera(result)
    \/ \E result \in PermissionResults : pressGrantPermission(result)
    \/ \E camera \in CameraIds : switchCamera(camera)
    \/ switchCamera_open
    \/ hostCaptureImage
    \/ handleEvent
    \/ unmount
    \/ \E h \in NativeCams : NativeOpened(h)
    \/ \E h \in NativeCams : NativeDisconnected(h)
    \/ \E h \in NativeCams : NativeError(h)
    \/ NativeConfigured
    \/ NativeConfigureFailed
    \/ NativeFrame

SpecHost == Init /\ [][NextHost]_vars

----------------------------------------------------------------------------
\* Properties of the specification, stated on the model.

ImageEvent(e) == e.name = "USBCameraImageCaptured"
EventIdx == 1 .. Len(events)
OpenHandles == {h \in Handles : camState[h] = "opened"}
Quiescent == cur[0] = Idle /\ \A t \in Threads : queue[t] = <<>> /\ cur[t] = Idle
ClosedSince(n) == Cardinality({i \in EventIdx : i > n /\ events[i].status = "closed"})
OpenGranted == hostResult.cmd = "openCamera" /\ hostResult.outcome # "PERMISSION_DENIED"

\* C1: at every instant at most one hardware camera handle is open (opened
\* and not yet closed); an openCamera never replaces a live handle.
C1_AtMostOneOpenHandle == Cardinality(OpenHandles) <= 1

\* C2: an openCamera call issued while the session is not Idle (an open is
\* still awaiting its opened callback, or a camera is open or previewing) is
\* rejected with AlreadyOpen and starts no second hardware open.
C2_OpenWhileBusyRejected ==
    (OpenGranted /\ hostResult.ctx \in {"Opening", "Open", "PreviewStarting",
                                        "Previewing", "Capturing"})
        => hostResult.outcome = "ALREADY_OPEN"

\* C3: closeCamera called twice in a row emits exactly one closed event in
\* total; the second call emits nothing.
C3_CloseTwiceOneClosedEvent ==
    closeRun.calls = 2 => ClosedSince(closeRun.start) = 1

\* C4: a captureImage call issued in a state other than Previewing (never
\* opened, opened without preview, after a hardware disconnect or error, after
\* close) is rejected with NoActiveSession (NO_SESSION) and issues no capture
\* request.
C4_CaptureOutsidePreviewRejected ==
    (hostResult.cmd = "captureImage"
     /\ hostResult.ctx \in {"Idle", "Opening", "Open", "Errored", "Closed"})
        => hostResult.outcome = "NO_SESSION"

\* C5: imageCaptured events come only from the frame of an accepted
\* captureImage call: a frame of the repeating preview request produces no
\* imageCaptured event.
C5_NoImageEventFromPreviewFrame ==
    \A i \in EventIdx : ImageEvent(events[i]) => events[i].imageData = "capture"

\* C6: after a disconnect during Previewing the session resources are released
\* without any host command: once the disconnected event is out and no callback
\* is pending, the capture session and the image reader are no longer held and
\* the camera handle was closed exactly once.
C6_DisconnectReleasesResources ==
    (/\ Quiescent
     /\ fault = "none"
     /\ events # <<>>
     /\ events[Len(events)].status = "disconnected"
     /\ \E i \in EventIdx : /\ events[i].status = "preview_started"
                            /\ events[i].dev = events[Len(events)].dev)
        => /\ captureSession = NoObject
           /\ imageReader = NoObject
           /\ camCloses[events[Len(events)].dev] = 1

\* C7: no imageCaptured event of a session follows the disconnected event of
\* that session, even when frames were already on their way to the listener.
C7_NoImageAfterDisconnected ==
    \A i \in EventIdx, j \in EventIdx :
        (i < j /\ events[i].status = "disconnected" /\ ImageEvent(events[j]))
            => events[j].dev # events[i].dev

\* C8: an imageCaptured event is emitted only while Previewing or Capturing:
\* after the previewStarted event of its session, with no closed event and no
\* error event of that session in between.
C8_ImageOnlyWhilePreviewing ==
    \A j \in EventIdx :
        ImageEvent(events[j]) =>
            \E i \in 1 .. j - 1 :
                /\ events[i].status = "preview_started"
                /\ events[i].dev = events[j].dev
                /\ \A k \in i + 1 .. j - 1 :
                     /\ events[k].status # "closed"
                     /\ ~(events[k].status = "error" /\ events[k].dev = events[j].dev)

\* C9: a previewStarted event is preceded by the opened event of the same
\* session, with no closed event and no disconnected or error event of that
\* session between the two.
C9_PreviewStartedAfterOpened ==
    \A j \in EventIdx :
        events[j].status = "preview_started" =>
            \E i \in 1 .. j - 1 :
                /\ events[i].status = "opened"
                /\ events[i].dev = events[j].dev
                /\ \A k \in i + 1 .. j - 1 :
                     /\ events[k].status # "closed"
                     /\ ~(events[k].status \in {"disconnected", "error"}
                          /\ events[k].dev = events[j].dev)

\* C10: startPreview is accepted only in state Open; in every other state,
\* also when a preview is starting or running, it is rejected with NotOpen
\* (NO_CAMERA) and allocates no image reader or capture session.
C10_StartPreviewOnlyWhenOpen ==
    (hostResult.cmd = "startPreview" /\ hostResult.ctx # "Open")
        => hostResult.outcome = "NO_CAMERA"

\* C11: startPreview with a resolution the opened camera does not list is
\* rejected with UnsupportedResolution before any image reader or capture
\* session is created: no capture session ever exists whose image reader has a
\* size its camera does not list.
C11_NoSessionOfUnsupportedSize ==
    \A r \in Sessions :
        (rdrState[r] # "none" /\ sessDev[r] # NoObject)
            => rdrSize[r] \in OutputSizes[camId[sessDev[r]]]

\* The facing value of the camera an entry of the listing was made from.
FacingOf(e) == hwCameras[e.id].facing
ListedIdx == 1 .. Len(listResult.cameras)

\* C12: every camera getAvailableCameras lists is classified by its facing
\* value alone: front gives front, back gives back, and the camera is external
\* (and flagged as the USB camera) exactly when the facing value is absent or
\* is the external value, whatever the number of cameras enumerated.
C12_ClassifiedByFacing ==
    \A k \in ListedIdx :
        LET e == listResult.cameras[k] IN
        /\ FacingOf(e) = <<LENS_FACING_FRONT>> => e.type = "front"
        /\ FacingOf(e) = <<LENS_FACING_BACK>> => e.type = "back"
        /\ e.type = "external" <=> FacingOf(e) \in {<<>>, <<LENS_FACING_EXTERNAL>>}
        /\ e.isUSBCamera <=> e.type = "external"

\* C12, its case: a listing of a camera facing back and a camera with no
\* facing value (Scenario A), and in the same listing a third camera.
C12_ListedBackAndAbsent ==
    /\ listResult.outcome = "resolved"
    /\ Len(listResult.cameras) = 3
    /\ \E k \in ListedIdx : /\ FacingOf(listResult.cameras[k]) = <<LENS_FACING_BACK>>
                            /\ listResult.cameras[k].type = "back"
    /\ \E k \in ListedIdx : /\ FacingOf(listResult.cameras[k]) = <<>>
                            /\ listResult.cameras[k].type = "external"

\* The thread that runs the callbacks of camera h: the HandlerThread started by
\* the openCamera call that opened h.
ThreadOf(h) == h

\* C13: after a hardware error while the open was in flight (no opened event
\* of that camera came before the error event), once the error event is out
\* and no callback is pending, the handle is closed and the background thread
\* started by that open is no longer running.
C13_ErrorWhileOpeningReleasesThread ==
    (/\ Quiescent
     /\ fault = "none"
     /\ events # <<>>
     /\ events[Len(events)].status = "error"
     /\ ~\E i \in EventIdx : /\ events[i].status = "opened"
                             /\ events[i].dev = events[Len(events)].dev)
        => /\ camState[events[Len(events)].dev] = "closed"
           /\ thrState[ThreadOf(events[Len(events)].dev)] # "alive"

\* C14: once the onConfigureFailed callback of a capture session has run, an
\* error event of that session's camera is on the event channel, and the image
\* reader made by startPreview and the camera handle are closed.
C14_ConfigureFailedTearsDown ==
    \A s \in Sessions :
        (/\ sessState[s] = "failed"
         /\ Accepts(sessThread[s])
         /\ Quiescent
         /\ fault = "none")
            => /\ \E i \in EventIdx : /\ events[i].status = "error"
                                      /\ events[i].dev = sessDev[s]
               /\ rdrState[s] = "closed"
               /\ camState[sessDev[s]] = "closed"

\* closeCamera was the last host command and has returned.
CloseCompleted ==
    hostResult.cmd = "closeCamera" /\ hostResult.outcome = "resolved" /\ cur[0] = Idle

\* C15: after closeCamera has returned, from whatever state it was called in,
\* no camera handle, capture session, image reader or background thread
\* remains allocated.
C15_CloseLeavesNothingAllocated ==
    CloseCompleted
        => /\ \A h \in Handles : camState[h] \notin {"opening", "opened", "lost"}
           /\ \A s \in Sessions : sessState[s] \notin {"configuring", "configured"}
           /\ \A r \in Sessions : rdrState[r] # "open"
           /\ \A t \in BgThreads : thrState[t] # "alive"

\* C16: a camera permission failure reaches the host as an error event (one
\* that stems from no camera handle): when openCamera ended with the
\* permission failure, such an event is on the event channel.
C16_PermissionFailureIsErrorEvent ==
    hostResult.outcome = "PERMISSION_DENIED"
        => \E i \in EventIdx : events[i].status = "error" /\ events[i].dev = NoObject

\* The manager was connected by a manualConnect among the first n calls with
\* no cleanup after it.
ConnectedAfter(n) ==
    \E j \in 1 .. n : /\ mockCalls[j].op = "manualConnect"
                      /\ \A l \in j + 1 .. n : mockCalls[l].op # "cleanup"
GuardedOps == {"captureImage", "setSettings", "getSettings"}

\* C17: in the microscope manager of the test suite, captureImage, setSettings
\* and getSettings throw 'Microscope not connected' exactly when no
\* manualConnect came before the call or a cleanup came after the last one,
\* and return otherwise.
C17_MockGuardsByConnection ==
    \A k \in 1 .. Len(mockCalls) :
        mockCalls[k].op \in GuardedOps
            => mockCalls[k].error = IF ConnectedAfter(k - 1) THEN "-" ELSE NotConnected

\* C17, its case: a guarded call that returned after manualConnect, and the
\* same call throwing after the cleanup that followed.
C17_ConnectedThenCleanedUp ==
    /\ Len(mockCalls) = 4
    /\ mockCalls[1].op = "manualConnect"
    /\ mockCalls[2] = MockCall("getSettings", "-")
    /\ mockCalls[3].op = "cleanup"
    /\ mockCalls[4] = MockCall("getSettings", NotConnected)

\* C18: after closeCamera has completed, a hardware callback that still
\* arrives is dropped: no step taken while closeCamera is the last, completed
\* host command emits an event or stores a camera handle or capture session.
C18_LateCallbacksDropped ==
    [][(CloseCompleted /\ CloseCompleted')
          => /\ events' = events
             /\ cameraDevice' = cameraDevice
             /\ captureSession' = captureSession]_vars

\* An operation is in flight: an open awaits its callback, a still capture
\* awaits its frame, or a callback is between two of its steps.
InFlight ==
    \/ \E h \in Handles : camState[h] = "opening"
    \/ \E s \in Sessions : pendingCapture[s] > 0
    \/ \E t \in BgThreads : cur[t] # Idle

\* C19: closeCamera lets an in-flight operation complete or fail before it
\* releases anything: at the step where closeCamera closes and clears the
\* handle and the session, no operation is in flight.
C19_CloseWaitsForInFlight ==
    [][(cur[0].op # "closeCamera" /\ cur'[0].op = "closeCamera") => ~InFlight]_vars

\* C20: the steps of a host command are not interleaved with a callback that
\* writes the session fields: while a host command is between two of its
\* steps, no step of another thread changes a field of the module.
C20_HostCommandNotInterleaved ==
    [][(cur[0] # Idle /\ cur'[0] = cur[0]) => fields' = fields]_vars

\* C21: no failure inside a hardware callback or a host command escapes as an
\* unhandled fault: no exception leaves onConfigured, onImageAvailable,
\* captureImage or any other handler uncaught.
C21_NoUnhandledFault == fault = "none"

\* The codes a host command rejects its promise with before it returns.
Rejections == {"PERMISSION_DENIED", "CAMERA_ERROR", "NO_CAMERA", "NO_SESSION",
               "CAPTURE_ERROR"}

\* C22: a host command that runs in one step and rejects its promise leaves
\* the session state as it was: the module's fields (camera handle, capture
\* session, image reader, background thread) and the platform's threads,
\* cameras, sessions and readers are the same after the call as before.
C22_RejectedCommandChangesNothing ==
    [][(nCmds' = nCmds + 1 /\ cur'[0] = Idle /\ hostResult'.outcome \in Rejections)
          => /\ fields' = fields
             /\ thrState' = thrState
             /\ camState' = camState
             /\ sessState' = sessState
             /\ rdrState' = rdrState]_vars

\* C23: at most one background camera thread of the module is alive at any
\* time.
C23_AtMostOneThreadAlive ==
    Cardinality({t \in BgThreads : thrState[t] = "alive"}) <= 1

\* C25: whenever the module holds a capture session it also holds a camera
\* handle and an image reader.
C25_SessionImpliesDeviceAndReader ==
    captureSession # NoObject => (cameraDevice # NoObject /\ imageReader # NoObject)

\* C24: a frame buffer the frame listener acquired is released on every path
\* out of the listener, also when reading or encoding the frame fails: a
\* listener that ended with that failure holds no buffer of its image reader.
C24_FrameBufferReleasedOnFailure ==
    fault = "OutOfMemoryError"
        => \A t \in Threads :
               cur[t].op = "onImageAvailable" => rdrImage[cur[t].obj] = "none"

\* C26: every openCamera and startPreview call settles its promise, whichever
\* hardware callback follows it: once the camera of an openCamera call is
\* closed, or the session of a startPreview call has failed or is closed, and
\* no callback is pending any more, the promise of that call is settled.
C26_PromisesSettled ==
    (Quiescent /\ fault = "none")
        => /\ \A h \in Handles : camState[h] = "closed" => openPromise[h] # "pending"
           /\ \A s \in Sessions :
                  sessState[s] \in {"failed", "closed"} => previewPromise[s] # "pending"

HostQuiet ==
    /\ lifecycle = "mounted"
    /\ NativeOk
    /\ jsQueue = <<>>
    /\ switching = "-"
    /\ \A h \in NativeCams : native.cam[h] # "opening"
    /\ native.configuring = NoObject
    /\ native.streaming = NoObject

C30_GrantedInitDetects ==
    initResult = "granted"
        => \E k \in 1 .. Len(nativeCalls) : nativeCalls[k].m = "getAvailableCameras"

====
